---------------------------- MODULE Spec2Model ----------------------------
(***************************************************************************)
(* The message-request -> conversation -> message workflow of              *)
(* routes/messages.py, over the tables of models/message.py and            *)
(* models/notification.py.                                                 *)
(*                                                                         *)
(* Every API call runs in a database session of its own (database.get_db). *)
(* A handler is modelled as the sequence of its database round trips: the  *)
(* call itself (all reads and checks up to the first write), one step per  *)
(* db.commit(), one step per send_notification, and the response.  Calls   *)
(* of different sessions interleave between these steps.                   *)
(***************************************************************************)
EXTENDS Integers, Sequences, FiniteSets, TLC

\* ------------------------------------------------------------------ bounds

\* Message requests that create_message_request may store in one run.
MaxRequests == 2
\* Messages that send_message may store in one run.
MaxMessages == 1
\* Calls of update_message_status that may pass their checks in one run.
MaxUpdates == 1

\* The database sessions whose calls may overlap: each API call gets a session
\* of its own from get_db, and two are what a race needs.
Procs == {"s1", "s2"}

\* ---------------------------------------------------- users and posts (external)

NULL == "NULL"

\* Rows of the users table (models/user.py): their ids.
Users == {"u1", "u2", "u3"}
\* Ids a caller may pass; "u0" is the id of no user.
UserInputs == Users \cup {"u0"}

\* Text order of the ids, as the store compares TEXT columns.
UserRank(u) == CASE u = "u1" -> 1 [] u = "u2" -> 2 [] u = "u3" -> 3 [] OTHER -> 0

\* Rows of the posts table: id -> owner (Post.user_id) and category.
PostIds == {"p1", "p2"}
\* Ids a caller may pass; "p0" is the id of no post.
PostInputs == PostIds \cup {"p0"}
PostUserId(p) == IF p = "p2" THEN "u2" ELSE "u1"
\* Post.category.value: vent is the one member of models.post.PostCategory.
PostCategory(p) == "vent"

\* Texts a client may send as MessageRequestCreate.initial_message.
Contents == {"hi"}
\* Texts a client may send as MessageCreate.content: a plain str field, so the
\* empty text is one of them.
MessageContents == {"hi", ""}

\* The strings a client may send as MessageRequestUpdate.status (a plain str).
StatusInputs == {"accepted", "rejected", "maybe"}

\* The members of models.message.MessageStatus, which are also the labels of
\* the store's enum type of messages.status, in their order.
MessageStatus == {"sent", "delivered", "read"}
\* What a client may send as MessageUpdate.status: a member of
\* pydantic_schemas.message.MessageStatus, which has the three above and
\* requested, accepted, rejected; "requested" stands for the latter three.
MessageStatusInputs == MessageStatus \cup {"requested"}

\* The columns models.user.User maps: the attributes a User object has.
UserColumns == {"id", "name", "email", "password", "phone", "emergency_contact",
                "latitude", "longitude", "language", "created_at", "updated_at"}
\* users.role, the column update_schema.py adds to the table.
UserRole(u) == IF u = "u3" THEN "admin" ELSE "user"

\* ------------------------------------------------------------------ state

VARIABLES
    requests,          \* table message_requests: set of rows
    conversations,     \* table conversations: set of rows
    messages,          \* table messages: set of rows
    notifications,     \* table notifications: rows in insertion order
    notifUserIdNotNull,\* schema of notifications.user_id in the deployed database
    nextRequestId,     \* uuid4() for MessageRequest.id: next fresh id
    nextConversationId,\* uuid4() for Conversation.id
    nextMessageId,     \* uuid4() for Message.id
    created,           \* number of requests create_message_request has allocated
    posted,            \* number of messages send_message has allocated
    updated,           \* number of update_message_status calls past their checks
    pc,                \* pc[p]: position of session p's handler
    call,              \* call[p]: the handler's local variables
    resp               \* resp[p]: the HTTP response of the finished call

tables == <<requests, conversations, messages>>
stores == <<requests, conversations, messages, notifications>>
ids == <<nextRequestId, nextConversationId, nextMessageId, created, posted, updated>>
vars == <<requests, conversations, messages, notifications, notifUserIdNotNull,
          nextRequestId, nextConversationId, nextMessageId, created, posted,
          updated,
          pc, call, resp>>

\* A finished call's response reaches its client before any session moves on:
\* no handler reads another session's response, so this loses no behaviour of
\* the tables.
NoResponsePending == \A q \in Procs : pc[q] # "done"

NoCall == [op |-> "none"]
NoResp == [code |-> 0, detail |-> "", id |-> 0]
Response(code, detail, id) == [code |-> code, detail |-> detail, id |-> id]


\* --------------------------------------- the store before the first API call
\* update_message_schema.py builds the three tables from the messages table of
\* the earlier schema (one row per direct message, with sender, receiver, post).

\* Rows the earlier messages table may hold; a row's id is also its place in
\* timestamp order.
LegacyRows ==
    { [id |-> 1, sender_id |-> "u1", receiver_id |-> "u2", post_id |-> "p2",
       content |-> "hi", status |-> "sent"],
      [id |-> 2, sender_id |-> "u2", receiver_id |-> "u1", post_id |-> "p2",
       content |-> "hi", status |-> "sent"],
      [id |-> 3, sender_id |-> "u3", receiver_id |-> "u2", post_id |-> "p2",
       content |-> "hi", status |-> "sent"],
      [id |-> 4, sender_id |-> "u1", receiver_id |-> "u2", post_id |-> "p1",
       content |-> "hi", status |-> "delivered"] }

\* CASE WHEN sender_id < receiver_id THEN sender_id ELSE receiver_id END, and its twin.
PairUser1(m) == IF UserRank(m.sender_id) < UserRank(m.receiver_id)
                THEN m.sender_id ELSE m.receiver_id
PairUser2(m) == IF UserRank(m.sender_id) < UserRank(m.receiver_id)
                THEN m.receiver_id ELSE m.sender_id

\* SELECT DISTINCT user1_id, user2_id, post_id FROM messages.
ConversationPairs(old) == { <<PairUser1(m), PairUser2(m), m.post_id>> : m \in old }

\* The messages between two users, in either direction.
LegacyBetween(old, a, b) ==
    { m \in old : \/ m.sender_id = a /\ m.receiver_id = b
                  \/ m.sender_id = b /\ m.receiver_id = a }

\* ORDER BY timestamp ASC LIMIT 1.
LegacyFirst(old, a, b) ==
    CHOOSE m \in LegacyBetween(old, a, b) :
        \A n \in LegacyBetween(old, a, b) : m.id <= n.id

\* The loop copies ALL messages between the two users for every (pair, post)
\* row: a second post for the same two users copies the same ids again, the
\* primary key of new_messages rejects them, and the script ends without its
\* commit.
MigrationAborts(old) ==
    \E x \in ConversationPairs(old), y \in ConversationPairs(old) :
        x[1] = y[1] /\ x[2] = y[2] /\ x[3] # y[3]

\* The uuid of the request and of the conversation made for a pair: its place
\* in ORDER BY user1_id, user2_id.
PairId(old, pr) ==
    Cardinality({ q \in ConversationPairs(old) :
        \/ UserRank(q[1]) < UserRank(pr[1])
        \/ UserRank(q[1]) = UserRank(pr[1]) /\ UserRank(q[2]) <= UserRank(pr[2]) })

\* MigratedRequests with the status left at the column's default.
MigratedRequestsPending(old) ==
    IF MigrationAborts(old) THEN {}
    ELSE { [id |-> PairId(old, pr),
            sender_id |-> LegacyFirst(old, pr[1], pr[2]).sender_id,
            receiver_id |-> LegacyFirst(old, pr[1], pr[2]).receiver_id,
            post_id |-> LegacyFirst(old, pr[1], pr[2]).post_id,
            initial_message |-> LegacyFirst(old, pr[1], pr[2]).content,
            status |-> "pending"] : pr \in ConversationPairs(old) }

MigratedRequests(old) ==
    IF MigrationAborts(old) THEN {}
    ELSE { [id |-> PairId(old, pr),
            sender_id |-> LegacyFirst(old, pr[1], pr[2]).sender_id,
            receiver_id |-> LegacyFirst(old, pr[1], pr[2]).receiver_id,
            post_id |-> LegacyFirst(old, pr[1], pr[2]).post_id,
            initial_message |-> LegacyFirst(old, pr[1], pr[2]).content,
            status |-> "accepted"] : pr \in ConversationPairs(old) }

MigratedConversations(old) ==
    IF MigrationAborts(old) THEN {}
    ELSE { [id |-> PairId(old, pr), user1_id |-> pr[1], user2_id |-> pr[2],
            request_id |-> PairId(old, pr)] : pr \in ConversationPairs(old) }

MigratedMessages(old) ==
    IF MigrationAborts(old) THEN {}
    ELSE { [id |-> m.id,
            conversation_id |-> PairId(old, <<PairUser1(m), PairUser2(m), m.post_id>>),
            sender_id |-> m.sender_id, content |-> m.content,
            status |-> m.status] : m \in old }

Init ==
    /\ \E old \in SUBSET LegacyRows :
         /\ requests = MigratedRequests(old)
         /\ conversations = MigratedConversations(old)
         /\ messages = MigratedMessages(old)
         /\ nextRequestId = Cardinality(MigratedRequests(old)) + 1
         /\ nextConversationId = Cardinality(MigratedConversations(old)) + 1
    /\ nextMessageId = Cardinality(LegacyRows) + 1
    /\ notifications = << >>
    /\ notifUserIdNotNull \in BOOLEAN
    /\ created = 0
    /\ posted = 0
    /\ updated = 0
    /\ pc = [p \in Procs |-> "idle"]
    /\ call = [p \in Procs |-> NoCall]
    /\ resp = [p \in Procs |-> NoResp]

\* -------------------------------------------------------------- session steps

\* The handler of session p raised or returned: the response goes out and the
\* session is closed (get_db's finally), dropping whatever was not committed.
Finish(p, r) ==
    /\ pc' = [pc EXCEPT ![p] = "done"]
    /\ resp' = [resp EXCEPT ![p] = r]
    /\ UNCHANGED call

\* The same for a call refused by its checks; c is what the client sent.
Refuse(p, c, r) ==
    /\ pc' = [pc EXCEPT ![p] = "done"]
    /\ resp' = [resp EXCEPT ![p] = r]
    /\ call' = [call EXCEPT ![p] = c]

\* The handler of session p goes on to position at with locals c.
Goto(p, at, c) ==
    /\ pc' = [pc EXCEPT ![p] = at]
    /\ call' = [call EXCEPT ![p] = c]
    /\ UNCHANGED resp

\* ------------------------------------------------------------ send_notification

\* The row send_notification builds: the user_id it is given is not passed on
\* to Notification(...), so the row's user_id column is NULL.
send_notification(user_id, message, related_content_type, related_content_id) ==
    [user_id |-> NULL, message |-> message, is_read |-> FALSE,
     related_content_type |-> related_content_type,
     related_content_id |-> related_content_id]

\* db.add(notification); db.commit() accepts the row unless the column it
\* leaves NULL is declared NOT NULL in the deployed schema.
NotificationAccepted(n) == ~(notifUserIdNotNull /\ n.user_id = NULL)

\* send_notification's db.add; db.commit(): the row is stored, or the commit
\* raises IntegrityError, which no handler catches.
StoreNotification(p, n, success) ==
    IF NotificationAccepted(n)
    THEN /\ notifications' = Append(notifications, n)
         /\ Finish(p, success)
    ELSE /\ UNCHANGED notifications
         /\ Finish(p, Response(500, "IntegrityError", 0))

\* ------------------------------------------------------ create_message_request

\* ExistingRequest with the status filter on the wrong member.
ExistingRequestAccepted(sender_id, receiver_id, post_id) ==
    \E r \in requests :
        /\ r.sender_id = sender_id
        /\ r.receiver_id = receiver_id
        /\ r.post_id = post_id
        /\ r.status = "accepted"

ExistingRequest(sender_id, receiver_id, post_id) ==
    \E r \in requests :
        /\ r.sender_id = sender_id
        /\ r.receiver_id = receiver_id
        /\ r.post_id = post_id
        /\ r.status = "pending"

\* ExistingConversation without the reversed pair.
ExistingConversationOneWay(sender_id, receiver_id) ==
    \E c \in conversations :
        c.user1_id = sender_id /\ c.user2_id = receiver_id

ExistingConversation(sender_id, receiver_id) ==
    \E c \in conversations :
        \/ c.user1_id = sender_id /\ c.user2_id = receiver_id
        \/ c.user1_id = receiver_id /\ c.user2_id = sender_id

\* CreateCheck without the test that the receiver owns the post.
CreateCheckNoOwner(sender_id, receiver_id, post_id) ==
    IF sender_id \notin Users THEN Response(404, "Sender user not found", 0)
    ELSE IF receiver_id \notin Users THEN Response(404, "Receiver user not found", 0)
    ELSE IF post_id \notin PostIds THEN Response(404, "Post not found", 0)
    ELSE IF PostCategory(post_id) # "vent"
        THEN Response(400, "Message requests can only be linked to vent posts", 0)
    ELSE IF ExistingRequest(sender_id, receiver_id, post_id)
        THEN Response(400, "A pending request already exists for this post", 0)
    ELSE IF ExistingConversation(sender_id, receiver_id)
        THEN Response(400, "A conversation already exists between these users", 0)
    ELSE Response(0, "ok", 0)

\* The first failing check of lines 76-136, or "ok".
CreateCheck(sender_id, receiver_id, post_id) ==
    IF sender_id \notin Users THEN Response(404, "Sender user not found", 0)
    ELSE IF receiver_id \notin Users THEN Response(404, "Receiver user not found", 0)
    ELSE IF post_id \notin PostIds THEN Response(404, "Post not found", 0)
    ELSE IF PostCategory(post_id) # "vent"
        THEN Response(400, "Message requests can only be linked to vent posts", 0)
    ELSE IF PostUserId(post_id) # receiver_id
        THEN Response(400, "Receiver must be the vent post owner", 0)
    ELSE IF ExistingRequest(sender_id, receiver_id, post_id)
        THEN Response(400, "A pending request already exists for this post", 0)
    ELSE IF ExistingConversation(sender_id, receiver_id)
        THEN Response(400, "A conversation already exists between these users", 0)
    ELSE Response(0, "ok", 0)

\* POST /requests: the checks, and the MessageRequest row built for the commit.
create_message_request(p, sender_id, receiver_id, post_id, initial_message) ==
    /\ pc[p] = "idle"
    /\ NoResponsePending
    /\ LET chk == CreateCheck(sender_id, receiver_id, post_id) IN
       IF chk.detail # "ok"
       THEN /\ Refuse(p, [op |-> "create_message_request"], chk)
            /\ UNCHANGED <<stores, ids>>
       ELSE /\ created < MaxRequests
            /\ Goto(p, "create_commit",
                    [op |-> "create_message_request",
                     db_request |-> [id |-> nextRequestId,
                                     sender_id |-> sender_id,
                                     receiver_id |-> receiver_id,
                                     post_id |-> post_id,
                                     initial_message |-> initial_message,
                                     status |-> "pending"]])
            /\ nextRequestId' = nextRequestId + 1
            /\ created' = created + 1
            /\ UNCHANGED <<stores, nextConversationId, nextMessageId, posted, updated>>
    /\ UNCHANGED notifUserIdNotNull

\* CreateCommit that goes on to the notification with the request not inserted.
CreateCommitNoInsert(p) ==
    /\ Goto(p, "create_notify", call[p])
    /\ UNCHANGED <<stores, ids>>

\* db.add(db_request); db.commit()
CreateCommit(p) ==
    /\ requests' = requests \cup {call[p].db_request}
    /\ Goto(p, "create_notify", call[p])
    /\ UNCHANGED <<conversations, messages, notifications, ids>>

\* -------------------------------------------------- respond_to_message_request

\* Python values of the two types that meet in the handler: the str that
\* MessageRequestUpdate.status carries, and a member of the enum.Enum class
\* models.message.MessageRequestStatus (the class routes/messages.py imports).
PyStr(s) == [type |-> "str", value |-> s]
MessageRequestStatus(name) == [type |-> "MessageRequestStatus", value |-> name]

\* StatusEquals as it would be were MessageRequestStatus a (str, Enum) class,
\* like the one of pydantic_schemas/message.py: equality by value.
StatusEqualsByValue(status, name) == status = name

\* response.status == MessageRequestStatus.<name>, which is also the test that
\* `in [MessageRequestStatus.accepted, MessageRequestStatus.rejected]` applies
\* to each element: a plain Enum member equals only itself.
StatusEquals(status, name) == PyStr(status) = MessageRequestStatus(name)

FindRequest(request_id) == { r \in requests : r.id = request_id }
TheRequest(request_id) == CHOOSE r \in requests : r.id = request_id

\* RespondCheck without the test that the request is still pending.
RespondCheckNoPending(request_id, user_id, status) ==
    IF FindRequest(request_id) = {} THEN Response(404, "Message request not found", 0)
    ELSE IF TheRequest(request_id).receiver_id # user_id
        THEN Response(403, "Only the message receiver can respond to requests", 0)
    ELSE IF ~(StatusEquals(status, "accepted") \/ StatusEquals(status, "rejected"))
        THEN Response(400, "Status must be 'accepted' or 'rejected'", 0)
    ELSE Response(0, "ok", 0)

\* RespondCheck without the test that the caller is the receiver.
RespondCheckNoReceiver(request_id, user_id, status) ==
    IF FindRequest(request_id) = {} THEN Response(404, "Message request not found", 0)
    ELSE IF TheRequest(request_id).status # "pending"
        THEN Response(400, "This request has already been processed", 0)
    ELSE IF ~(StatusEquals(status, "accepted") \/ StatusEquals(status, "rejected"))
        THEN Response(400, "Status must be 'accepted' or 'rejected'", 0)
    ELSE Response(0, "ok", 0)

\* The first failing check of lines 208-234, or "ok".
RespondCheck(request_id, user_id, status) ==
    IF FindRequest(request_id) = {} THEN Response(404, "Message request not found", 0)
    ELSE IF TheRequest(request_id).receiver_id # user_id
        THEN Response(403, "Only the message receiver can respond to requests", 0)
    ELSE IF TheRequest(request_id).status # "pending"
        THEN Response(400, "This request has already been processed", 0)
    ELSE IF ~(StatusEquals(status, "accepted") \/ StatusEquals(status, "rejected"))
        THEN Response(400, "Status must be 'accepted' or 'rejected'", 0)
    ELSE Response(0, "ok", 0)

\* POST /requests/{request_id}/respond: the checks.
respond_to_message_request(p, request_id, user_id, status) ==
    /\ pc[p] = "idle"
    /\ NoResponsePending
    /\ LET chk == RespondCheck(request_id, user_id, status)
           args == [op |-> "respond_to_message_request",
                    request_id |-> request_id, status |-> status,
                    conversation_id |-> 0] IN
       IF chk.detail # "ok"
       THEN Refuse(p, args, chk)
       ELSE Goto(p, "respond_status", args)
    /\ UNCHANGED <<stores, ids, notifUserIdNotNull>>

\* message_request.status = response.status; db.commit().  The UPDATE finds
\* no row when the request was deleted meanwhile (StaleDataError).
RespondCommitStatus(p) ==
    IF FindRequest(call[p].request_id) = {}
    THEN /\ Finish(p, Response(500, "StaleDataError", 0))
         /\ UNCHANGED <<stores, ids>>
    ELSE /\ requests' = { IF r.id = call[p].request_id
                          THEN [r EXCEPT !.status = call[p].status] ELSE r
                          : r \in requests }
         /\ Goto(p, IF StatusEquals(call[p].status, "accepted")
                    THEN "respond_conversation" ELSE "respond_notify", call[p])
         /\ UNCHANGED <<conversations, messages, notifications, ids>>

\* The Conversation and the initial Message, added and committed together.
\* The commit before expired message_request, whose attributes are re-read
\* here (ObjectDeletedError when the row is gone).
RespondCommitConversation(p) ==
    IF FindRequest(call[p].request_id) = {}
    THEN /\ Finish(p, Response(500, "ObjectDeletedError", 0))
         /\ UNCHANGED <<stores, ids>>
    ELSE LET message_request == TheRequest(call[p].request_id) IN
         /\ conversations' = conversations \cup
                {[id |-> nextConversationId,
                  user1_id |-> message_request.sender_id,
                  user2_id |-> message_request.receiver_id,
                  request_id |-> message_request.id]}
         /\ messages' = messages \cup
                {[id |-> nextMessageId,
                  conversation_id |-> nextConversationId,
                  sender_id |-> message_request.sender_id,
                  content |-> message_request.initial_message,
                  status |-> "sent"]}
         /\ nextConversationId' = nextConversationId + 1
         /\ nextMessageId' = nextMessageId + 1
         /\ Goto(p, "respond_notify",
                 [call[p] EXCEPT !.conversation_id = nextConversationId])
         /\ UNCHANGED <<requests, notifications, nextRequestId, created, posted, updated>>

\* ------------------------------------- send_message, get_conversation_messages

FindConversation(conversation_id) == { c \in conversations : c.id = conversation_id }
TheConversation(conversation_id) == CHOOSE c \in conversations : c.id = conversation_id

\* NotParticipant with an exemption for users of the admin role.
NotParticipantUnlessAdmin(user_id, conversation) ==
    /\ user_id \notin {conversation.user1_id, conversation.user2_id}
    /\ UserRole(user_id) # "admin"

\* user_id not in [conversation.user1_id, conversation.user2_id]
NotParticipant(user_id, conversation) ==
    user_id \notin {conversation.user1_id, conversation.user2_id}

\* The first failing check of lines 416-428 (and of 372-383), or "ok".
ConversationCheck(conversation_id, user_id, forbidden) ==
    IF FindConversation(conversation_id) = {} THEN Response(404, "Conversation not found", 0)
    ELSE IF NotParticipant(user_id, TheConversation(conversation_id))
        THEN Response(403, forbidden, 0)
    ELSE Response(0, "ok", 0)

\* POST /conversations/{conversation_id}/messages: the checks, and the Message
\* row built for the commit.
send_message(p, conversation_id, sender_id, content) ==
    /\ pc[p] = "idle"
    /\ NoResponsePending
    /\ LET chk == ConversationCheck(conversation_id, sender_id,
                      "You are not authorized to send messages in this conversation") IN
       IF chk.detail # "ok"
       THEN /\ Refuse(p, [op |-> "send_message"], chk)
            /\ UNCHANGED <<stores, ids>>
       ELSE /\ posted < MaxMessages
            /\ Goto(p, "send_commit",
                    [op |-> "send_message",
                     db_message |-> [id |-> nextMessageId,
                                     conversation_id |-> conversation_id,
                                     sender_id |-> sender_id,
                                     content |-> content,
                                     status |-> "sent"]])
            /\ nextMessageId' = nextMessageId + 1
            /\ posted' = posted + 1
            /\ UNCHANGED <<stores, nextRequestId, nextConversationId, created, updated>>
    /\ UNCHANGED notifUserIdNotNull

\* db.add(db_message); db.commit().  messages.conversation_id is a foreign
\* key: the insert fails when the conversation is gone.
SendCommit(p) ==
    IF FindConversation(call[p].db_message.conversation_id) = {}
    THEN /\ Finish(p, Response(500, "IntegrityError", 0))
         /\ UNCHANGED <<stores, ids>>
    ELSE /\ messages' = messages \cup {call[p].db_message}
         /\ Goto(p, "send_notify", call[p])
         /\ UNCHANGED <<requests, conversations, notifications, ids>>

\* send_message, lines 443-459.  conversation was expired by the commit and is
\* re-read for the recipient; db_message is re-read for the response.
SendNotify(p) ==
    LET db_message == call[p].db_message IN
    IF FindConversation(db_message.conversation_id) = {}
    THEN /\ Finish(p, Response(500, "ObjectDeletedError", 0))
         /\ UNCHANGED notifications
    ELSE LET conversation == TheConversation(db_message.conversation_id)
             recipient_id == IF db_message.sender_id = conversation.user2_id
                             THEN conversation.user1_id
                             ELSE conversation.user2_id IN
         StoreNotification(p,
             send_notification(recipient_id, "You have a new message",
                               "post", conversation.request_id),
             IF \E m \in messages : m.id = db_message.id
             THEN Response(200, "message", db_message.id)
             ELSE Response(500, "ObjectDeletedError", 0))

\* The ids of the rows the query of lines 386-391 returns; ORDER BY timestamp
\* is the order of the ids.
Listed(conversation_id) ==
    { m.id : m \in { n \in messages : n.conversation_id = conversation_id } }

\* ToMarkRead without the test on the message's sender.
ToMarkReadOwnToo(conversation_id, user_id) ==
    { m.id : m \in { n \in messages : /\ n.conversation_id = conversation_id
                                      /\ n.status # "read" } }

\* The messages of the listing that the loop of lines 394-396 sets to read.
ToMarkRead(conversation_id, user_id) ==
    { m.id : m \in { n \in messages : /\ n.conversation_id = conversation_id
                                      /\ n.sender_id # user_id
                                      /\ n.status # "read" } }

\* GET /conversations/{conversation_id}/messages: the checks and the query.
get_conversation_messages(p, conversation_id, user_id) ==
    /\ pc[p] = "idle"
    /\ NoResponsePending
    /\ LET chk == ConversationCheck(conversation_id, user_id,
                      "You are not authorized to view this conversation") IN
       IF chk.detail # "ok"
       THEN Refuse(p, [op |-> "get_conversation_messages"], chk)
       ELSE Goto(p, "list_commit",
                 [op |-> "get_conversation_messages",
                  conversation_id |-> conversation_id,
                  user_id |-> user_id,
                  returned |-> Listed(conversation_id),
                  marked |-> ToMarkRead(conversation_id, user_id)])
    /\ UNCHANGED <<stores, ids, notifUserIdNotNull>>

\* ListCommit writing delivered where the handler writes read.
ListCommitDelivered(p) ==
    /\ messages' = { IF m.id \in call[p].marked
                     THEN [m EXCEPT !.status = "delivered"] ELSE m : m \in messages }
    /\ Finish(p, Response(200, "messages", 0))
    /\ UNCHANGED <<requests, conversations, notifications, ids>>

\* db.commit() of the statuses set in the loop: one UPDATE per changed row,
\* which finds no row when the message is gone (StaleDataError).
ListCommit(p) ==
    IF \E id \in call[p].marked : ~ \E m \in messages : m.id = id
    THEN /\ Finish(p, Response(500, "StaleDataError", 0))
         /\ UNCHANGED <<stores, ids>>
    ELSE /\ messages' = { IF m.id \in call[p].marked
                          THEN [m EXCEPT !.status = "read"] ELSE m : m \in messages }
         /\ Finish(p, Response(200, "messages", 0))
         /\ UNCHANGED <<requests, conversations, notifications, ids>>

\* -------------------------------------------------------- update_message_status

FindMessage(message_id) == { m \in messages : m.id = message_id }
TheMessage(message_id) == CHOOSE m \in messages : m.id = message_id

\* The first failing check of lines 473-497, or "ok".
UpdateCheck(message_id, user_id) ==
    IF FindMessage(message_id) = {} THEN Response(404, "Message not found", 0)
    ELSE IF FindConversation(TheMessage(message_id).conversation_id) = {}
        THEN Response(404, "Conversation not found", 0)
    ELSE IF NotParticipant(user_id, TheConversation(TheMessage(message_id).conversation_id))
        THEN Response(403, "You are not authorized to update messages in this conversation", 0)
    ELSE IF TheMessage(message_id).sender_id = user_id
        THEN Response(400, "You cannot update the status of your own messages", 0)
    ELSE Response(0, "ok", 0)

\* PATCH /messages/{message_id}: the checks.
update_message_status(p, message_id, user_id, status) ==
    /\ pc[p] = "idle"
    /\ NoResponsePending
    /\ LET chk == UpdateCheck(message_id, user_id) IN
       IF chk.detail # "ok"
       THEN /\ Refuse(p, [op |-> "update_message_status"], chk)
            /\ UNCHANGED updated
       ELSE /\ updated < MaxUpdates
            /\ Goto(p, "update_commit",
                    [op |-> "update_message_status",
                     message_id |-> message_id, status |-> status])
            /\ updated' = updated + 1
    /\ UNCHANGED <<stores, nextRequestId, nextConversationId, nextMessageId,
                   created, posted, notifUserIdNotNull>>

\* message.status = status_update.status; db.commit(); db.refresh(message).
\* The UPDATE carries the text of the status: the store's enum type takes the
\* three labels of MessageStatus and rejects any other (DataError); it finds
\* no row when the message is gone (StaleDataError).
UpdateCommit(p) ==
    IF FindMessage(call[p].message_id) = {}
    THEN /\ Finish(p, Response(500, "StaleDataError", 0))
         /\ UNCHANGED <<stores, ids>>
    ELSE IF call[p].status \notin MessageStatus
    THEN /\ Finish(p, Response(500, "DataError", 0))
         /\ UNCHANGED <<stores, ids>>
    ELSE /\ messages' = { IF m.id = call[p].message_id
                          THEN [m EXCEPT !.status = call[p].status] ELSE m
                          : m \in messages }
         /\ Finish(p, Response(200, "message", call[p].message_id))
         /\ UNCHANGED <<requests, conversations, notifications, ids>>

\* ------------------------------------------------- admin: delete_message_request

\* utils.auth.get_current_user: the bearer token names a user, or 401.
get_current_user(token) ==
    IF token \notin Users
    THEN Response(401, "Invalid authentication credentials", 0)
    ELSE Response(0, "ok", 0)

\* utils.auth.get_admin_user: current_user.role != "admin" or not
\* current_user.is_active.  Reading an attribute the User class does not map
\* raises AttributeError, which nothing catches.
get_admin_user(token) ==
    IF get_current_user(token).detail # "ok" THEN get_current_user(token)
    ELSE IF "role" \notin UserColumns THEN Response(500, "AttributeError", 0)
    ELSE IF UserRole(token) # "admin"
        THEN Response(403, "Admin privileges required for this operation", 0)
    ELSE IF "is_active" \notin UserColumns THEN Response(500, "AttributeError", 0)
    ELSE Response(0, "ok", 0)

\* The dependency, then the first failing check of lines 519-530, or "ok".
DeleteRequestCheck(token, request_id) ==
    IF get_admin_user(token).detail # "ok" THEN get_admin_user(token)
    ELSE IF FindRequest(request_id) = {} THEN Response(404, "Message request not found", 0)
    ELSE IF \E c \in conversations : c.request_id = request_id
        THEN Response(400, "Cannot delete request with an active conversation", 0)
    ELSE Response(0, "ok", 0)

\* DELETE /requests/{request_id}: the dependency and the checks.
delete_message_request(p, token, request_id) ==
    /\ pc[p] = "idle"
    /\ NoResponsePending
    /\ LET chk == DeleteRequestCheck(token, request_id) IN
       IF chk.detail # "ok"
       THEN Refuse(p, [op |-> "delete_message_request"], chk)
       ELSE Goto(p, "delete_request_commit",
                 [op |-> "delete_message_request", request_id |-> request_id])
    /\ UNCHANGED <<stores, ids, notifUserIdNotNull>>

\* db.delete(request); db.commit().  The DELETE finds no row when the request
\* is gone (StaleDataError) and is refused by conversations.request_id's
\* foreign key when a conversation references the row (IntegrityError).
DeleteRequestCommit(p) ==
    IF FindRequest(call[p].request_id) = {}
    THEN /\ Finish(p, Response(500, "StaleDataError", 0))
         /\ UNCHANGED <<stores, ids>>
    ELSE IF \E c \in conversations : c.request_id = call[p].request_id
    THEN /\ Finish(p, Response(500, "IntegrityError", 0))
         /\ UNCHANGED <<stores, ids>>
    ELSE /\ requests' = { r \in requests : r.id # call[p].request_id }
         /\ Finish(p, Response(204, "Message request deleted", 0))
         /\ UNCHANGED <<conversations, messages, notifications, ids>>

\* ------------------------ admin: delete_conversation, delete_message, delete_user_data

\* sessionmaker(autocommit=False, autoflush=False, bind=engine): a query does
\* not first send the session's pending db.delete()s to the store.
autoflush == FALSE

MessagesOf(conversation_ids) ==
    { m.id : m \in { n \in messages : n.conversation_id \in conversation_ids } }

\* A row of messages still references one of these conversations, other than
\* the rows this transaction deleted: conversations' DELETE is refused by
\* messages.conversation_id's foreign key.
MessagesRemain(conversation_ids, deleted) ==
    \E m \in messages : m.conversation_id \in conversation_ids /\ m.id \notin deleted

\* delete_conversation that removes the Conversation row at once, with no
\* dependency and without its Messages.
delete_conversation_RowOnly(p, token, conversation_id) ==
    /\ pc[p] = "idle"
    /\ NoResponsePending
    /\ FindConversation(conversation_id) # {}
    /\ conversations' = { c \in conversations : c.id # conversation_id }
    /\ Refuse(p, [op |-> "delete_conversation"],
              Response(204, "Conversation and all messages deleted", 0))
    /\ UNCHANGED <<requests, messages, notifications, ids, notifUserIdNotNull>>

\* DELETE /conversations/{conversation_id}: the dependency, the check, and the
\* bulk DELETE of the conversation's messages, which runs in the transaction
\* and covers the rows committed by then.
delete_conversation(p, token, conversation_id) ==
    /\ pc[p] = "idle"
    /\ NoResponsePending
    /\ LET chk == IF get_admin_user(token).detail # "ok" THEN get_admin_user(token)
                  ELSE IF FindConversation(conversation_id) = {}
                      THEN Response(404, "Conversation not found", 0)
                  ELSE Response(0, "ok", 0) IN
       IF chk.detail # "ok"
       THEN Refuse(p, [op |-> "delete_conversation"], chk)
       ELSE Goto(p, "delete_conversation_commit",
                 [op |-> "delete_conversation",
                  conversation_id |-> conversation_id,
                  deleted |-> MessagesOf({conversation_id})])
    /\ UNCHANGED <<stores, ids, notifUserIdNotNull>>

\* db.delete(conversation); db.commit(): the conversation's DELETE is sent at
\* the commit, and the transaction commits whole or not at all.
DeleteConversationCommit(p) ==
    IF FindConversation(call[p].conversation_id) = {}
    THEN /\ Finish(p, Response(500, "StaleDataError", 0))
         /\ UNCHANGED <<stores, ids>>
    ELSE IF MessagesRemain({call[p].conversation_id}, call[p].deleted)
    THEN /\ Finish(p, Response(500, "IntegrityError", 0))
         /\ UNCHANGED <<stores, ids>>
    ELSE /\ messages' = { m \in messages : m.id \notin call[p].deleted }
         /\ conversations' = { c \in conversations : c.id # call[p].conversation_id }
         /\ Finish(p, Response(204, "Conversation and all messages deleted", 0))
         /\ UNCHANGED <<requests, notifications, ids>>

\* DELETE /messages/{message_id}: the dependency and the check.
delete_message(p, token, message_id) ==
    /\ pc[p] = "idle"
    /\ NoResponsePending
    /\ LET chk == IF get_admin_user(token).detail # "ok" THEN get_admin_user(token)
                  ELSE IF FindMessage(message_id) = {}
                      THEN Response(404, "Message not found", 0)
                  ELSE Response(0, "ok", 0) IN
       IF chk.detail # "ok"
       THEN Refuse(p, [op |-> "delete_message"], chk)
       ELSE Goto(p, "delete_message_commit",
                 [op |-> "delete_message", message_id |-> message_id])
    /\ UNCHANGED <<stores, ids, notifUserIdNotNull>>

\* db.delete(message); db.commit()
DeleteMessageCommit(p) ==
    IF FindMessage(call[p].message_id) = {}
    THEN /\ Finish(p, Response(500, "StaleDataError", 0))
         /\ UNCHANGED <<stores, ids>>
    ELSE /\ messages' = { m \in messages : m.id # call[p].message_id }
         /\ Finish(p, Response(204, "Message deleted", 0))
         /\ UNCHANGED <<requests, conversations, notifications, ids>>

ConversationsOfUser(user_id) ==
    { c.id : c \in { d \in conversations : user_id \in {d.user1_id, d.user2_id} } }

RequestsOfUser(user_id) ==
    { r.id : r \in { q \in requests : user_id \in {q.sender_id, q.receiver_id} } }

\* The conversation rows the store holds when the bulk DELETE of the user's
\* requests runs: those of the user are gone only if their db.delete() was
\* flushed before the query.
ConversationsAtRequestDelete(user_id) ==
    IF autoflush
    THEN { c \in conversations : c.id \notin ConversationsOfUser(user_id) }
    ELSE conversations

\* delete_user_data that commits after its first statement, with no dependency:
\* the messages of the user's conversations are gone and nothing else.
delete_user_data_PerStatement(p, token, user_id) ==
    /\ pc[p] = "idle"
    /\ NoResponsePending
    /\ MessagesOf(ConversationsOfUser(user_id)) # {}
    /\ messages' = { m \in messages : m.id \notin MessagesOf(ConversationsOfUser(user_id)) }
    /\ Refuse(p, [op |-> "delete_user_data"], Response(500, "IntegrityError", 0))
    /\ UNCHANGED <<requests, conversations, notifications, ids, notifUserIdNotNull>>

\* DELETE /user/{user_id}/all: the dependency and the statements of lines
\* 592-609.  The bulk DELETE of the user's requests is checked against
\* conversations.request_id's foreign key when it runs (IntegrityError).
delete_user_data(p, token, user_id) ==
    /\ pc[p] = "idle"
    /\ NoResponsePending
    /\ LET chk == IF get_admin_user(token).detail # "ok" THEN get_admin_user(token)
                  ELSE IF \E c \in ConversationsAtRequestDelete(user_id) :
                             c.request_id \in RequestsOfUser(user_id)
                      THEN Response(500, "IntegrityError", 0)
                  ELSE Response(0, "ok", 0) IN
       IF chk.detail # "ok"
       THEN Refuse(p, [op |-> "delete_user_data"], chk)
       ELSE Goto(p, "delete_user_data_commit",
                 [op |-> "delete_user_data",
                  user_id |-> user_id,
                  conversation_ids |-> ConversationsOfUser(user_id),
                  deleted |-> MessagesOf(ConversationsOfUser(user_id)),
                  request_ids |-> RequestsOfUser(user_id)])
    /\ UNCHANGED <<stores, ids, notifUserIdNotNull>>

\* db.commit(): the pending DELETEs of the user's conversations are sent, and
\* the transaction commits whole or not at all.
DeleteUserDataCommit(p) ==
    IF \E id \in call[p].conversation_ids : FindConversation(id) = {}
    THEN /\ Finish(p, Response(500, "StaleDataError", 0))
         /\ UNCHANGED <<stores, ids>>
    ELSE IF \/ MessagesRemain(call[p].conversation_ids, call[p].deleted)
            \/ \E c \in conversations : /\ c.id \notin call[p].conversation_ids
                                         /\ c.request_id \in call[p].request_ids
    THEN /\ Finish(p, Response(500, "IntegrityError", 0))
         /\ UNCHANGED <<stores, ids>>
    ELSE /\ messages' = { m \in messages : m.id \notin call[p].deleted }
         /\ conversations' = { c \in conversations : c.id \notin call[p].conversation_ids }
         /\ requests' = { r \in requests : r.id \notin call[p].request_ids }
         /\ Finish(p, Response(204, "All messaging data deleted", 0))
         /\ UNCHANGED <<notifications, ids>>

\* ----------------- get_received_message_requests, get_sent_message_requests,
\* ----------------- get_conversations

\* The handler of session p returns r at once; c holds what it was asked and
\* what it returned.
Answer(p, c, r) ==
    /\ pc' = [pc EXCEPT ![p] = "done"]
    /\ resp' = [resp EXCEPT ![p] = r]
    /\ call' = [call EXCEPT ![p] = c]

\* ReceivedRequests without the filter on the status.
ReceivedRequestsAnyStatus(user_id) ==
    { r.id : r \in { q \in requests : q.receiver_id = user_id } }

\* receiver_id == user_id AND status == pending: the ids of the rows.
ReceivedRequests(user_id) ==
    { r.id : r \in { q \in requests : /\ q.receiver_id = user_id
                                      /\ q.status = "pending" } }

\* sender_id == user_id: the ids of the rows.
SentRequests(user_id) ==
    { r.id : r \in { q \in requests : q.sender_id = user_id } }

\* GET /requests/received/{user_id}
get_received_message_requests(p, user_id) ==
    /\ pc[p] = "idle"
    /\ NoResponsePending
    /\ Answer(p, [op |-> "get_received_message_requests", user_id |-> user_id,
                  result |-> ReceivedRequests(user_id)],
              Response(200, "requests", 0))
    /\ UNCHANGED <<stores, ids, notifUserIdNotNull>>

\* GET /requests/sent/{user_id}
get_sent_message_requests(p, user_id) ==
    /\ pc[p] = "idle"
    /\ NoResponsePending
    /\ Answer(p, [op |-> "get_sent_message_requests", user_id |-> user_id,
                  result |-> SentRequests(user_id)],
              Response(200, "requests", 0))
    /\ UNCHANGED <<stores, ids, notifUserIdNotNull>>

\* partner_id of lines 315-319.
PartnerId(conversation, user_id) ==
    IF conversation.user2_id = user_id THEN conversation.user1_id
    ELSE conversation.user2_id

\* UnreadCount without the filter on the status.
UnreadCountAnyStatus(conversation, user_id) ==
    Cardinality({ m \in messages :
        /\ m.conversation_id = conversation.id
        /\ m.sender_id = PartnerId(conversation, user_id) })

\* unread_count of lines 334-343.
UnreadCount(conversation, user_id) ==
    Cardinality({ m \in messages :
        /\ m.conversation_id = conversation.id
        /\ m.sender_id = PartnerId(conversation, user_id)
        /\ m.status # "read" })

\* last_message of lines 326-331: the id of the newest message, 0 for none.
LastMessage(conversation) ==
    IF MessagesOf({conversation.id}) = {} THEN 0
    ELSE CHOOSE id \in MessagesOf({conversation.id}) :
             \A other \in MessagesOf({conversation.id}) : other <= id

\* GET /conversations/{user_id}
get_conversations(p, user_id) ==
    /\ pc[p] = "idle"
    /\ NoResponsePending
    /\ Answer(p, [op |-> "get_conversations", user_id |-> user_id,
                  result |-> { [id |-> c.id,
                                unread_count |-> UnreadCount(c, user_id),
                                last_message |-> LastMessage(c)] :
                               c \in { d \in conversations :
                                         user_id \in {d.user1_id, d.user2_id} } }],
              Response(200, "conversations", 0))
    /\ UNCHANGED <<stores, ids, notifUserIdNotNull>>

\* ------------------------------------------- the notification step of a handler

\* create_message_request, lines 152-161.  Returning db_request re-reads the
\* row that the notification's commit expired.
CreateNotify(p) ==
    LET db_request == call[p].db_request IN
    StoreNotification(p,
        send_notification(db_request.receiver_id,
                          "Someone wants to talk about your vent post",
                          "post", db_request.post_id),
        IF db_request \in requests
        THEN Response(201, "created", db_request.id)
        ELSE Response(500, "ObjectDeletedError", 0))

\* respond_to_message_request, lines 263-295.  message_request was expired by
\* the commit before and is re-read for sender_id and post_id; conversation.id
\* is re-read for the response.
RespondNotify(p) ==
    IF FindRequest(call[p].request_id) = {}
    THEN /\ Finish(p, Response(500, "ObjectDeletedError", 0))
         /\ UNCHANGED notifications
    ELSE LET message_request == TheRequest(call[p].request_id) IN
         IF StatusEquals(call[p].status, "accepted")
         THEN StoreNotification(p,
                  send_notification(message_request.sender_id,
                      "Your message request was accepted! You can now start chatting.",
                      "post", message_request.post_id),
                  IF \E c \in conversations : c.id = call[p].conversation_id
                  THEN Response(200, "Request accepted, conversation created",
                                call[p].conversation_id)
                  ELSE Response(500, "ObjectDeletedError", 0))
         ELSE StoreNotification(p,
                  send_notification(message_request.sender_id,
                      "Your message request was declined.",
                      "post", message_request.post_id),
                  Response(200, "Request rejected", 0))

\* ------------------------------------------------------------------ actions

CommitPositions == {"create_commit", "respond_status", "respond_conversation",
                    "send_commit", "list_commit", "update_commit",
                    "delete_request_commit", "delete_conversation_commit",
                    "delete_message_commit", "delete_user_data_commit"}
NotifyPositions == {"create_notify", "respond_notify", "send_notify"}

\* The store commits the transaction session p has open.
Commit(p) ==
    /\ pc[p] \in CommitPositions
    /\ NoResponsePending
    /\ CASE pc[p] = "create_commit" -> CreateCommit(p)
         [] pc[p] = "respond_status" -> RespondCommitStatus(p)
         [] pc[p] = "respond_conversation" -> RespondCommitConversation(p)
         [] pc[p] = "send_commit" -> SendCommit(p)
         [] pc[p] = "list_commit" -> ListCommit(p)
         [] pc[p] = "update_commit" -> UpdateCommit(p)
         [] pc[p] = "delete_request_commit" -> DeleteRequestCommit(p)
         [] pc[p] = "delete_conversation_commit" -> DeleteConversationCommit(p)
         [] pc[p] = "delete_message_commit" -> DeleteMessageCommit(p)
         [] pc[p] = "delete_user_data_commit" -> DeleteUserDataCommit(p)
    /\ UNCHANGED notifUserIdNotNull

\* Session p's handler calls send_notification and returns.
Notify(p) ==
    /\ pc[p] \in NotifyPositions
    /\ NoResponsePending
    /\ CASE pc[p] = "create_notify" -> CreateNotify(p)
         [] pc[p] = "respond_notify" -> RespondNotify(p)
         [] pc[p] = "send_notify" -> SendNotify(p)
    /\ UNCHANGED <<tables, ids, notifUserIdNotNull>>

\* The store fails session p's next statement (OperationalError: connection
\* lost): the handler raises, get_db logs, re-raises and closes the session,
\* which rolls back what was not committed.
DbError(p) ==
    /\ pc[p] \in CommitPositions \cup NotifyPositions
    /\ NoResponsePending
    /\ Finish(p, Response(500, "OperationalError", 0))
    /\ UNCHANGED <<stores, ids, notifUserIdNotNull>>

\* The client has the response; the session is free for the next call.
Return(p) ==
    /\ pc[p] = "done"
    /\ pc' = [pc EXCEPT ![p] = "idle"]
    /\ resp' = [resp EXCEPT ![p] = NoResp]
    /\ call' = [call EXCEPT ![p] = NoCall]
    /\ UNCHANGED <<stores, ids, notifUserIdNotNull>>

CreateCall(p) ==
    \E sender_id \in UserInputs, receiver_id \in UserInputs,
       post_id \in PostInputs, initial_message \in Contents :
        create_message_request(p, sender_id, receiver_id, post_id, initial_message)

RespondCall(p) ==
    \E request_id \in 0..(nextRequestId - 1), user_id \in UserInputs,
       status \in StatusInputs :
        respond_to_message_request(p, request_id, user_id, status)

SendCall(p) ==
    \E conversation_id \in 0..(nextConversationId - 1), sender_id \in UserInputs,
       content \in MessageContents :
        send_message(p, conversation_id, sender_id, content)

ListCall(p) ==
    \E conversation_id \in 0..(nextConversationId - 1), user_id \in UserInputs :
        get_conversation_messages(p, conversation_id, user_id)

UpdateCall(p) ==
    \E message_id \in 0..(nextMessageId - 1), user_id \in UserInputs,
       status \in MessageStatusInputs :
        update_message_status(p, message_id, user_id, status)

DeleteRequestCall(p) ==
    \E token \in UserInputs, request_id \in 0..(nextRequestId - 1) :
        delete_message_request(p, token, request_id)

DeleteConversationCall(p) ==
    \E token \in UserInputs, conversation_id \in 0..(nextConversationId - 1) :
        delete_conversation(p, token, conversation_id)

DeleteMessageCall(p) ==
    \E token \in UserInputs, message_id \in 0..(nextMessageId - 1) :
        delete_message(p, token, message_id)

DeleteUserDataCall(p) ==
    \E token \in UserInputs, user_id \in UserInputs :
        delete_user_data(p, token, user_id)

ReceivedCall(p) == \E user_id \in UserInputs : get_received_message_requests(p, user_id)

SentCall(p) == \E user_id \in UserInputs : get_sent_message_requests(p, user_id)

ConversationsCall(p) == \E user_id \in UserInputs : get_conversations(p, user_id)

Next ==
    \E p \in Procs :
        \/ CreateCall(p)
        \/ RespondCall(p)
        \/ DeleteRequestCall(p)
        \/ DeleteConversationCall(p)
        \/ DeleteMessageCall(p)
        \/ DeleteUserDataCall(p)
        \/ Commit(p)
        \/ Notify(p)
        \/ DbError(p)
        \/ Return(p)

Spec == Init /\ [][Next]_vars

\* The same calls, one at a time: a session moves only while no other call is
\* in flight.
Alone(p) == \A q \in Procs \ {p} : pc[q] = "idle"

SeqNext ==
    \E p \in Procs :
        \/ Alone(p) /\ CreateCall(p)
        \/ Alone(p) /\ RespondCall(p)
        \/ Alone(p) /\ DeleteRequestCall(p)
        \/ Alone(p) /\ DeleteConversationCall(p)
        \/ Alone(p) /\ DeleteMessageCall(p)
        \/ Alone(p) /\ DeleteUserDataCall(p)
        \/ Alone(p) /\ ReceivedCall(p)
        \/ Alone(p) /\ SentCall(p)
        \/ Alone(p) /\ Commit(p)
        \/ Alone(p) /\ Notify(p)
        \/ Alone(p) /\ DbError(p)
        \/ Alone(p) /\ Return(p)

SeqSpec == Init /\ [][SeqNext]_vars

\* Posting to and listing the conversations the database holds, and the admin
\* deletes of conversations, messages and user data, by sessions whose calls
\* overlap, while no request is created or answered.
MsgNext ==
    \E p \in Procs :
        \/ SendCall(p)
        \/ ListCall(p)
        \/ DeleteConversationCall(p)
        \/ DeleteMessageCall(p)
        \/ DeleteUserDataCall(p)
        \/ Commit(p)
        \/ Notify(p)
        \/ DbError(p)
        \/ Return(p)

MsgSpec == Init /\ [][MsgNext]_vars

\* The conversation endpoints (post, list, update status, get-conversations),
\* one call at a time.
MsgSeqNext ==
    \E p \in Procs :
        \/ Alone(p) /\ SendCall(p)
        \/ Alone(p) /\ ListCall(p)
        \/ Alone(p) /\ UpdateCall(p)
        \/ Alone(p) /\ ConversationsCall(p)
        \/ Alone(p) /\ Commit(p)
        \/ Alone(p) /\ Notify(p)
        \/ Alone(p) /\ DbError(p)
        \/ Alone(p) /\ Return(p)

MsgSeqSpec == Init /\ [][MsgSeqNext]_vars

\* ------------------------------------------------------------------ claims

Done(p, detail) == pc[p] = "done" /\ resp[p].detail = detail

\* Session p holds the response to a respond call with this decision on r.
Responded(p, r, status) ==
    /\ pc[p] = "done"
    /\ call[p].op = "respond_to_message_request"
    /\ call[p].request_id = r.id
    /\ call[p].status = status

ConversationsOfPair(a, b) ==
    { c \in conversations : {c.user1_id, c.user2_id} = {a, b} }

RequestsOfPair(a, b) ==
    { r \in requests : {r.sender_id, r.receiver_id} = {a, b} }

BecomesAccepted(r) ==
    /\ r.status # "accepted"
    /\ \E r2 \in requests' : r2.id = r.id /\ r2.status = "accepted"

RespondPositions == {"respond_status", "respond_conversation", "respond_notify"}

Responding(p, id) == pc[p] \in RespondPositions /\ call[p].request_id = id

\* C3: of the respond calls that race on a pending request exactly one
\* succeeds: the call that finds the request pending, while no other call has
\* passed the checks for it, is not refused; the status is written once; and
\* at most one Conversation ever references the request.
C3_OneRespondWins ==
    /\ [](\A r \in requests :
            Cardinality({ c \in conversations : c.request_id = r.id }) <= 1)
    /\ [][ /\ \A r \in requests, r2 \in requests' :
                 (r2.id = r.id /\ r.status # "pending") => r2.status = r.status
           /\ \A p \in Procs, r \in requests, status \in {"accepted", "rejected"} :
                 ( /\ r.status = "pending"
                   /\ \A q \in Procs : ~Responding(q, r.id)
                   /\ respond_to_message_request(p, r.id, r.receiver_id, status) )
                 => pc'[p] = "respond_status"
         ]_vars

\* C4: a respond call by the receiver on a request that is no longer pending
\* is refused as already processed, whatever the decision, and changes
\* nothing in the four tables.
C4_ProcessedRequestRefused ==
    [][ \A p \in Procs, r \in requests, status \in StatusInputs :
          ( /\ r.status # "pending"
            /\ respond_to_message_request(p, r.id, r.receiver_id, status) )
          => /\ pc'[p] = "done"
             /\ resp'[p] = Response(400, "This request has already been processed", 0)
             /\ UNCHANGED stores
      ]_vars

\* C4 witness: a respond call has been refused as already processed.
C4_Witness ==
    \E p \in Procs, r \in requests :
        /\ Responded(p, r, "accepted")
        /\ Done(p, "This request has already been processed")
        /\ r.status = "accepted"

\* C5: when the receiver of a pending request answers "accepted" the call is
\* not refused, and once it has returned the request is accepted and a
\* Conversation of sender and receiver references it.
C5_AcceptSucceeds ==
    [][ \A p \in Procs, r \in requests :
          ( /\ r.status = "pending"
            /\ respond_to_message_request(p, r.id, r.receiver_id, "accepted") )
          => /\ pc'[p] = "respond_status"
             /\ resp'[p].code < 400
      ]_vars

\* The last row of the notifications table after a step that added exactly one.
AddedNotification == notifications'[Len(notifications')]

\* C6: each request-lifecycle transition adds exactly one Notification, to the
\* right user and referencing the request's post: create-request one for the
\* receiver, accept and reject one for the request's sender.
C6_NotificationPerTransition ==
    [][ \A p \in Procs :
          /\ (pc[p] = "create_notify" /\ Notify(p)) =>
                /\ Len(notifications') = Len(notifications) + 1
                /\ AddedNotification.user_id = call[p].db_request.receiver_id
                /\ AddedNotification.related_content_type = "post"
                /\ AddedNotification.related_content_id = call[p].db_request.post_id
          /\ (pc[p] = "respond_notify" /\ Notify(p)) =>
                /\ Len(notifications') = Len(notifications) + 1
                /\ \E r \in requests :
                      /\ r.id = call[p].request_id
                      /\ AddedNotification.user_id = r.sender_id
                      /\ AddedNotification.related_content_type = "post"
                      /\ AddedNotification.related_content_id = r.post_id
      ]_vars

PendingOfTriple(sender_id, receiver_id, post_id) ==
    { r \in requests : /\ r.sender_id = sender_id
                       /\ r.receiver_id = receiver_id
                       /\ r.post_id = post_id
                       /\ r.status = "pending" }

\* C7: with calls executed one at a time, a create-request for a (sender,
\* receiver, post) triple that has a pending request is refused with 400 and
\* adds no request and no notification, and no triple ever has two pending
\* requests.
C7_DuplicateRequestRefused ==
    /\ [](\A s \in Users, r \in Users, post \in PostIds :
            Cardinality(PendingOfTriple(s, r, post)) <= 1)
    /\ [][ \A p \in Procs, r \in requests, msg \in Contents :
             ( /\ r.status = "pending"
               /\ create_message_request(p, r.sender_id, r.receiver_id, r.post_id, msg) )
             => /\ pc'[p] = "done"
                /\ resp'[p] = Response(400, "A pending request already exists for this post", 0)
                /\ UNCHANGED stores
         ]_vars

\* C7 witness: a create-request has been refused as a duplicate of a request
\* that is pending.
C7_Witness ==
    \E p \in Procs :
        /\ Done(p, "A pending request already exists for this post")
        /\ \E r \in requests : r.status = "pending"

\* C8: also when create-request calls overlap, no two pending requests share
\* their (sender, receiver, post) triple.
C8_NoTwoPendingUnderRace ==
    \A r1 \in requests, r2 \in requests :
        ( /\ r1.status = "pending" /\ r2.status = "pending"
          /\ r1.sender_id = r2.sender_id
          /\ r1.receiver_id = r2.receiver_id
          /\ r1.post_id = r2.post_id )
        => r1.id = r2.id

\* C9: a create-request between two users who already have a Conversation, in
\* either order of its two members and for whichever post, is refused (400
\* when the post exists) and stores neither a request nor a notification.
C9_ConversationBlocksRequest ==
    [][ \A p \in Procs, s \in Users, r \in Users, post \in PostInputs, msg \in Contents :
          ( /\ ConversationsOfPair(s, r) # {}
            /\ create_message_request(p, s, r, post, msg) )
          => /\ pc'[p] = "done"
             /\ resp'[p].code = (IF post \in PostIds THEN 400 ELSE 404)
             /\ UNCHANGED stores
      ]_vars

\* C9 witness: a create-request has been refused because the two users have a
\* Conversation.
C9_Witness ==
    \E p \in Procs :
        /\ Done(p, "A conversation already exists between these users")
        /\ conversations # {}

\* C10: no stored MessageRequest has sender = receiver and no Conversation has
\* user1 = user2.
C10_NoSelfPairs ==
    /\ \A r \in requests : r.sender_id # r.receiver_id
    /\ \A c \in conversations : c.user1_id # c.user2_id

\* C11: every request that create-request stores references an existing vent
\* post whose owner is the request's receiver; a create-request naming a
\* missing sender, receiver or post is refused with 404, and one whose
\* receiver is not the post's owner (or whose post is not a vent) with 400,
\* each leaving requests and notifications unchanged.
C11_RequestReferencesOwnedVentPost ==
    [][ /\ \A r \in requests' \ requests :
              /\ r.post_id \in PostIds
              /\ PostCategory(r.post_id) = "vent"
              /\ PostUserId(r.post_id) = r.receiver_id
        /\ \A p \in Procs, s \in UserInputs, r \in UserInputs,
              post \in PostInputs, msg \in Contents :
              create_message_request(p, s, r, post, msg) =>
                  /\ (s \notin Users \/ r \notin Users \/ post \notin PostIds) =>
                         /\ pc'[p] = "done" /\ resp'[p].code = 404
                         /\ UNCHANGED stores
                  /\ ( /\ s \in Users /\ r \in Users /\ post \in PostIds
                       /\ (PostCategory(post) # "vent" \/ PostUserId(post) # r) ) =>
                         /\ pc'[p] = "done" /\ resp'[p].code = 400
                         /\ UNCHANGED stores
      ]_vars

\* C11 witness: a create-request was refused because its receiver does not own
\* the post, while a request stored by an earlier create-request is pending.
C11_Witness ==
    /\ \E p \in Procs : Done(p, "Receiver must be the vent post owner")
    /\ \E r \in requests : r.status = "pending" /\ PostUserId(r.post_id) = r.receiver_id

\* C12: a respond call on request r by anyone but r's receiver (r's sender
\* included) is refused with 403 and changes no table, and a request's status
\* leaves pending only in the status commit of a respond call, which only the
\* receiver's call reaches.
C12_OnlyReceiverResponds ==
    [][ /\ \A p \in Procs, r \in requests, u \in UserInputs, status \in StatusInputs :
              (u # r.receiver_id /\ respond_to_message_request(p, r.id, u, status)) =>
                  /\ pc'[p] = "done"
                  /\ resp'[p] = Response(403, "Only the message receiver can respond to requests", 0)
                  /\ UNCHANGED stores
        /\ \A r \in requests, r2 \in requests' :
              (r2.id = r.id /\ r.status = "pending" /\ r2.status # "pending") =>
                  \E p \in Procs : /\ pc[p] = "respond_status"
                                    /\ call[p].request_id = r.id
                                    /\ Commit(p)
      ]_vars

\* C12 witness: a respond call on a pending request was refused with 403, and
\* the request is still pending.
C12_Witness ==
    \E p \in Procs, r \in requests :
        /\ pc[p] = "done"
        /\ call[p].op = "respond_to_message_request"
        /\ call[p].request_id = r.id
        /\ resp[p].code = 403
        /\ r.status = "pending"

\* C13: post message, list messages and update message status, called for a
\* conversation by a user who is neither of its two participants, are refused
\* with 403 and change nothing: no Message, no status, no Notification.
C13_NonParticipantRefused ==
    [][ \A p \in Procs, c \in conversations, u \in UserInputs :
          (pc[p] = "idle" /\ pc'[p] # "idle" /\ u \notin {c.user1_id, c.user2_id}) =>
              /\ \A content \in MessageContents :
                     send_message(p, c.id, u, content) =>
                         /\ pc'[p] = "done" /\ resp'[p].code = 403
                         /\ UNCHANGED stores
              /\ get_conversation_messages(p, c.id, u) =>
                     /\ pc'[p] = "done" /\ resp'[p].code = 403
                     /\ UNCHANGED stores
              /\ \A m \in messages, status \in MessageStatusInputs :
                     (m.conversation_id = c.id /\ update_message_status(p, m.id, u, status)) =>
                         /\ pc'[p] = "done" /\ resp'[p].code = 403
                         /\ UNCHANGED stores
      ]_vars

\* C13 witness: an update of a message's status was refused with 403.
C13_Witness ==
    \E p \in Procs :
        /\ Done(p, "You are not authorized to update messages in this conversation")
        /\ resp[p].code = 403
        /\ messages # {}

\* Session p holds the 200 response of a listing of conversation c for user u.
ListedFor(p, c, u) ==
    /\ pc[p] = "done"
    /\ call[p].op = "get_conversation_messages"
    /\ resp[p].code = 200
    /\ call[p].conversation_id = c
    /\ call[p].user_id = u

\* The step in which session p's listing commits and returns 200.
ListReturns(p) ==
    /\ pc[p] = "list_commit"
    /\ Commit(p)
    /\ resp'[p].code = 200

\* C14: when a participant's listing of conversation c returns, every message
\* of c written by the other participant is stored with status read, and the
\* messages the caller wrote and those of other conversations are as before.
C14_ListMarksCounterpartRead ==
    [][ \A p \in Procs : ListReturns(p) =>
          /\ \A m \in messages' :
                 (m.conversation_id = call[p].conversation_id
                  /\ m.sender_id # call[p].user_id) => m.status = "read"
          /\ \A m \in messages :
                 (m.conversation_id # call[p].conversation_id
                  \/ m.sender_id = call[p].user_id) => m \in messages'
          /\ { m.id : m \in messages' } = { m.id : m \in messages }
      ]_vars

\* C14 witness: a listing has returned for a conversation that holds a message
\* of the other participant, now read, and a message of the caller that is not
\* read.
C14_Witness ==
    \E p \in Procs, c \in conversations, u \in Users :
        /\ ListedFor(p, c.id, u)
        /\ \E m \in messages :
               m.conversation_id = c.id /\ m.sender_id # u /\ m.status = "read"
        /\ \E m \in messages :
               m.conversation_id = c.id /\ m.sender_id = u /\ m.status # "read"

\* C15: with calls one at a time, the state a listing leaves is one from which
\* the same listing returns the same messages, finds every message of the
\* other participant read, and marks nothing; and a listing that marks
\* nothing changes no table.
C15_ListIdempotent ==
    [][ \A p \in Procs :
          /\ ListReturns(p) =>
                 /\ Listed(call[p].conversation_id)' = call[p].returned
                 /\ ToMarkRead(call[p].conversation_id, call[p].user_id)' = {}
          /\ (ListReturns(p) /\ call[p].marked = {}) => UNCHANGED stores
          /\ \A c \in conversations, u \in Users :
                 get_conversation_messages(p, c.id, u) =>
                     (pc'[p] = "list_commit" =>
                         /\ call'[p].returned = Listed(c.id)
                         /\ call'[p].marked = ToMarkRead(c.id, u))
      ]_vars

\* C15 witness: a listing has returned that found a message of the other
\* participant already read and marked nothing.
C15_Witness ==
    \E p \in Procs, c \in conversations, u \in Users :
        /\ ListedFor(p, c.id, u)
        /\ call[p].marked = {}
        /\ \E m \in messages :
               /\ m.id \in call[p].returned
               /\ m.sender_id # u
               /\ m.status = "read"

\* The place of a status in sent -> delivered -> read.
StatusRank(status) ==
    CASE status = "sent" -> 1
      [] status = "delivered" -> 2
      [] status = "read" -> 3
      [] OTHER -> 0

\* C16: a stored Message's status is always one of sent, delivered, read, and
\* no step moves it backward along sent -> delivered -> read.
C16_StatusNeverMovesBack ==
    /\ [](\A m \in messages : m.status \in MessageStatus)
    /\ [][ \A m \in messages, m2 \in messages' :
              m2.id = m.id => StatusRank(m2.status) >= StatusRank(m.status) ]_vars

\* C17: update_message_status called by the author of the message is refused
\* with 403, whatever the status asked for, and changes no table.
C17_SenderUpdateForbidden ==
    [][ \A p \in Procs, m \in messages, status \in MessageStatusInputs :
          update_message_status(p, m.id, m.sender_id, status) =>
              /\ pc'[p] = "done"
              /\ resp'[p].code = 403
              /\ UNCHANGED stores
      ]_vars

\* C18: no stored Message has empty content and no stored MessageRequest has
\* an empty initial message.
C18_NoEmptyContent ==
    /\ \A m \in messages : m.content # ""
    /\ \A r \in requests : r.initial_message # ""

\* C19: a post-message that succeeds inserts exactly one Message, of the
\* caller, in the conversation, with status sent, leaving every other row of
\* the three tables as it was, and adds exactly one Notification, addressed to
\* the other participant.
C19_PostAddsMessageAndNotification ==
    [][ \A p \in Procs :
          /\ (pc[p] = "send_commit" /\ Commit(p) /\ pc'[p] = "send_notify") =>
                 /\ messages' = messages \cup {call[p].db_message}
                 /\ call[p].db_message \notin messages
                 /\ call[p].db_message.status = "sent"
                 /\ UNCHANGED <<requests, conversations>>
          /\ (pc[p] = "send_notify" /\ Notify(p)) =>
                 /\ resp'[p].code = 200
                 /\ Len(notifications') = Len(notifications) + 1
                 /\ \E c \in conversations :
                        /\ c.id = call[p].db_message.conversation_id
                        /\ AddedNotification.user_id \in
                               {c.user1_id, c.user2_id} \ {call[p].db_message.sender_id}
      ]_vars

\* The users who hold the admin role.
Admins == { u \in Users : UserRole(u) = "admin" }

\* C20: an admin's delete-request on a request that a Conversation references
\* is refused with 409 and changes nothing; on a request that no Conversation
\* references it is not refused, and its commit removes that request only.
C20_AdminDeleteRequest ==
    [][ /\ \A p \in Procs, r \in requests, token \in Admins :
              delete_message_request(p, token, r.id) =>
                  IF \E c \in conversations : c.request_id = r.id
                  THEN /\ pc'[p] = "done" /\ resp'[p].code = 409
                       /\ UNCHANGED stores
                  ELSE pc'[p] = "delete_request_commit"
        /\ \A p \in Procs :
              (pc[p] = "delete_request_commit" /\ Commit(p) /\ resp'[p].code = 204) =>
                  /\ requests' = { r \in requests : r.id # call[p].request_id }
                  /\ UNCHANGED <<conversations, messages, notifications>>
      ]_vars

\* ------------------------------------------------------------------ C21 .. C30

DataOf(u) ==
    [conversations |-> { c \in conversations : u \in {c.user1_id, c.user2_id} },
     messages |-> { m \in messages : \/ m.sender_id = u
                                     \/ m.conversation_id \in ConversationsOfUser(u) },
     requests |-> { r \in requests : u \in {r.sender_id, r.receiver_id} }]

NoData == [conversations |-> {}, messages |-> {}, requests |-> {}]

\* The purge of u answered 204 in this step, having removed DataOf(u) and
\* nothing else.
Purged(p, u) ==
    /\ resp'[p].code = 204
    /\ DataOf(u)' = NoData
    /\ conversations' = conversations \ DataOf(u).conversations
    /\ messages' = messages \ DataOf(u).messages
    /\ requests' = requests \ DataOf(u).requests

\* C22: an admin's delete-all-messaging-data for U answers with nothing left
\* that involves U, and with every other row as it was.
C22_PurgeRemovesAllOfUser ==
    [][ \A p \in Procs, token \in Admins, u \in Users :
            /\ (delete_user_data(p, token, u) /\ pc'[p] = "done") => Purged(p, u)
            /\ (/\ pc[p] = "delete_user_data_commit"
                /\ call[p].user_id = u
                /\ Commit(p)) => Purged(p, u) ]_vars

Forbidden(p) ==
    /\ pc'[p] = "done"
    /\ resp'[p].code = 403
    /\ UNCHANGED tables

\* C24: each of the four admin deletes, called by an authenticated user who is
\* not an admin, is refused with 403 Forbidden and deletes nothing.
C24_DeletesForbiddenToNonAdmins ==
    [][ \A p \in Procs, token \in Users \ Admins :
            /\ \A r \in requests :
                   delete_message_request(p, token, r.id) => Forbidden(p)
            /\ \A c \in conversations :
                   delete_conversation(p, token, c.id) => Forbidden(p)
            /\ \A m \in messages :
                   delete_message(p, token, m.id) => Forbidden(p)
            /\ \A u \in Users :
                   delete_user_data(p, token, u) => Forbidden(p) ]_vars

\* C25: the notification step of create-request, respond or post-message
\* answers the caller with the operation's success result whether or not the
\* Notification insert succeeds, and leaves the committed change in place.
C25_NotificationFailureNotRaised ==
    [][ \A p \in Procs :
            (pc[p] \in NotifyPositions /\ (Notify(p) \/ DbError(p))) =>
                /\ pc'[p] = "done"
                /\ resp'[p].code \in 200..299
                /\ UNCHANGED tables ]_vars

\* C26: a call that is answered with a non-2xx response has written nothing:
\* the answering step changes no table, and it is not taken from a
\* notification step, where the call's own change is already committed.
C26_FailedCallLeavesTablesUnchanged ==
    [][ \A p \in Procs :
            (/\ pc[p] # "done"
             /\ pc'[p] = "done"
             /\ resp'[p].code \notin 200..299) =>
                /\ UNCHANGED tables
                /\ pc[p] \notin NotifyPositions ]_vars

\* C27: the received-requests listing returned for u holds exactly the stored
\* requests with receiver u and status pending, and the sent-requests listing
\* returned for u holds exactly the stored requests with sender u, whatever
\* their status.
C27_RequestListings ==
    \A p \in Procs :
        /\ (pc[p] = "done" /\ call[p].op = "get_received_message_requests") =>
               /\ call[p].result \subseteq { r.id : r \in requests }
               /\ \A r \in requests :
                      r.id \in call[p].result <=>
                          (r.receiver_id = call[p].user_id /\ r.status = "pending")
        /\ (pc[p] = "done" /\ call[p].op = "get_sent_message_requests") =>
               /\ call[p].result \subseteq { r.id : r \in requests }
               /\ \A r \in requests :
                      r.id \in call[p].result <=> r.sender_id = call[p].user_id

\* A received listing was returned to a user who has both a pending request,
\* which it holds, and an accepted one, which it does not hold.
C27_Witness ==
    \E p \in Procs, r \in requests, a \in requests :
        /\ pc[p] = "done"
        /\ call[p].op = "get_received_message_requests"
        /\ r.receiver_id = call[p].user_id
        /\ r.status = "pending"
        /\ r.id \in call[p].result
        /\ a.receiver_id = call[p].user_id
        /\ a.status = "accepted"
        /\ a.id \notin call[p].result

\* The request of conversation c is stored, is accepted, and was made between
\* the two members of c.
ReferencesAcceptedRequest(c) ==
    \E r \in requests :
        /\ r.id = c.request_id
        /\ r.status = "accepted"
        /\ {r.sender_id, r.receiver_id} = {c.user1_id, c.user2_id}

CoreChangeCommitted(p) ==
    CASE pc[p] = "create_notify" ->
             \E r \in requests : r.id = call[p].db_request.id
      [] pc[p] = "respond_notify" ->
             \E r \in requests : r.id = call[p].request_id /\ r.status # "pending"
      [] pc[p] = "send_notify" ->
             \E m \in messages : m.id = call[p].db_message.id
      [] OTHER -> FALSE

\* C29: a Notification is stored only by the notification step of a call whose
\* request, conversation or message change is committed: never before the
\* commit, and never for a call whose commit failed.
C29_NotificationAfterCommit ==
    [][ notifications' # notifications =>
            \E p \in Procs :
                /\ pc[p] \in NotifyPositions
                /\ Notify(p)
                /\ CoreChangeCommitted(p)
                /\ notifications' = Append(notifications, AddedNotification) ]_vars

\* A create-request has stored its Notification, and the request it committed
\* before is stored.
C29_Witness ==
    \E p \in Procs :
        /\ pc[p] = "done"
        /\ call[p].op = "create_message_request"
        /\ resp[p].code = 201
        /\ call[p].db_request \in requests
        /\ Len(notifications) > 0

\* The messages of conversation c written by the participant other than u
\* that are not at read.
UnreadOf(c, u) ==
    { m \in messages : /\ m.conversation_id = c.id
                       /\ m.sender_id \in {c.user1_id, c.user2_id} \ {u}
                       /\ m.status # "read" }

\* C30: the unread count get-conversations returns to u for each of u's
\* conversations is the number of the other participant's messages in it that
\* are not at read; a listing of c returned to participant u leaves it at 0
\* for u and as it was for the other participant; a committed post to c adds
\* one for the participant who did not write it and nothing for the writer.
C30_UnreadCount ==
    /\ [](\A p \in Procs :
            (pc[p] = "done" /\ call[p].op = "get_conversations") =>
                /\ { e.id : e \in call[p].result } = ConversationsOfUser(call[p].user_id)
                /\ \A e \in call[p].result : \A c \in conversations :
                       c.id = e.id =>
                           e.unread_count = Cardinality(UnreadOf(c, call[p].user_id)))
    /\ [][ \A p \in Procs : \A c \in conversations : \A u \in {c.user1_id, c.user2_id} :
            /\ (/\ pc[p] = "list_commit"
                /\ Commit(p)
                /\ resp'[p].code = 200
                /\ call[p].conversation_id = c.id) =>
                   IF call[p].user_id = u
                   THEN UnreadOf(c, u)' = {}
                   ELSE UnreadOf(c, u)' = UnreadOf(c, u)
            /\ (/\ pc[p] = "send_commit"
                /\ Commit(p)
                /\ pc'[p] = "send_notify"
                /\ call[p].db_message.conversation_id = c.id) =>
                   IF call[p].db_message.sender_id = u
                   THEN UnreadOf(c, u)' = UnreadOf(c, u)
                   ELSE Cardinality(UnreadOf(c, u)') = Cardinality(UnreadOf(c, u)) + 1 ]_vars

\* get-conversations has reported an unread message to a user whose
\* conversation also holds a message of the other participant that is read.
C30_Witness ==
    \E p \in Procs, c \in conversations, m \in messages :
        /\ pc[p] = "done"
        /\ call[p].op = "get_conversations"
        /\ \E e \in call[p].result : e.id = c.id /\ e.unread_count > 0
        /\ m.conversation_id = c.id
        /\ m.sender_id # call[p].user_id
        /\ m.status = "read"

=============================================================================
